---------------------------- MODULE Spec2Model ----------------------------
(***************************************************************************)
(* Model of the code generated by the #[component] macro of dill           *)
(* (src/impl/src/lib.rs): the per-component builder with its scope and its  *)
(* per-argument overrides, build() and the typed get(), run by several     *)
(* threads against one frozen Catalog.                                      *)
(*                                                                         *)
(* The runtime half of the library (Catalog::get and the Singleton and     *)
(* Transient scopes) is not part of src/; CatalogGet, Matching, Names,     *)
(* InProgress, ScopeGet and ScopeSet are modelled from the specification.  *)
(***************************************************************************)
EXTENDS Integers, Sequences, FiniteSets, TLC

\* ------------------------------------------------------------------ bounds
NumThreads == 2      \* threads sharing the Catalog
MaxCalls   == 3      \* top-level Catalog.get calls made in one run, all threads
MaxDepth   == 4      \* frames one resolution may nest before the model stops it

Threads == 1..NumThreads

\* ------------------------------------------------------------ declarations
\* One constructor argument as implement_arg sees it: its stripped type, its
\* shape and the override configured on the builder before registration.
\*   shape: "ref" (&X), "arc" (Arc<X>), "owned" (X)
\*   ovr:   "none" | "val" (with_x) | "fn_ok" | "fn_err" (with_x_fn)
Arg(ty, shape, ovr) == [ty |-> ty, shape |-> shape, ovr |-> ovr]

\* One #[component]: the implementation type, the #[scope(..)] attribute
\* ("none" when absent) and the arguments in declaration order.
Component(ty, attr, args) == [impl_type |-> ty, scope_attr |-> attr, args |-> args]

\* The runs of the model: a catalog (the registered builders, in
\* registration order), the types its callers ask the Catalog for, and
\* those of them that are also asked for through the type-erased get.
Scenario(builders, asks, erased) ==
  [builders |-> builders, asks |-> asks, erased |-> erased]

Scenarios ==
  { \* a Singleton without dependencies
    Scenario(<< Component("S", "Singleton", <<>>) >>, {"S"}, {"S"}),
    \* Logger (Transient by default), a Singleton Service holding Arc<Logger>
    Scenario(<< Component("Logger", "none", <<>>),
                Component("Service", "Singleton", << Arg("Logger", "arc", "none") >>) >>,
             {"Logger", "Service"}, {}),
    \* T needs a Singleton A, a Logger and then a B nobody registered
    Scenario(<< Component("A", "Singleton", <<>>),
                Component("Logger", "none", <<>>),
                Component("T", "Singleton", << Arg("A", "arc", "none"),
                                               Arg("Logger", "arc", "none"),
                                               Arg("B", "arc", "none") >>) >>,
             {"T"}, {}),
    \* Service with a fixed-value override on a registered type, and a
    \* borrowed Config
    Scenario(<< Component("Config", "Transient", <<>>),
                Component("Service", "Singleton", << Arg("Config", "owned", "val"),
                                                     Arg("Config", "ref", "none") >>) >>,
             {"Service"}, {}),
    \* Service with a fixed-value override and a function override that
    \* succeeds, both on types nobody registered
    Scenario(<< Component("Service", "Singleton", << Arg("Str", "owned", "val"),
                                                     Arg("D", "arc", "fn_ok") >>) >>,
             {"Service"}, {}),
    \* two builders of the same type, a user of that type, and a Singleton K
    Scenario(<< Component("L", "Transient", <<>>),
                Component("L", "Singleton", <<>>),
                Component("U", "Transient", << Arg("K", "ref", "none"),
                                               Arg("L", "ref", "none") >>),
                Component("K", "Singleton", <<>>) >>,
             {"L", "U", "K", "Missing"}, {}),
    \* a dependency cycle A -> B -> A
    Scenario(<< Component("A", "Transient", << Arg("B", "arc", "none") >>),
                Component("B", "Singleton", << Arg("A", "owned", "none") >>) >>,
             {"A", "B"}, {"A"}),
    \* a function override that fails after a Singleton was resolved and
    \* before an argument nobody registered
    Scenario(<< Component("A", "Singleton", <<>>),
                Component("T", "Singleton", << Arg("A", "owned", "none"),
                                               Arg("C", "owned", "fn_err"),
                                               Arg("B", "arc", "none") >>) >>,
             {"T"}, {}),
    \* a Singleton User holding a Singleton Config by Arc
    Scenario(<< Component("Config", "Singleton", <<>>),
                Component("User", "Singleton", << Arg("Config", "arc", "none") >>) >>,
             {"User"}, {}) }

Catalogs == {s.builders : s \in Scenarios}

VARIABLES
  cat,    \* the frozen Catalog: the registered builders, in registration order
  scope,  \* scope[b]: the instance cached by builder b's scope, 0 when Empty
  stack,  \* stack[t]: the typed get() frames of thread t, innermost last
  calls,  \* calls[t]: the top-level Catalog.get calls of thread t, with results
  heap,   \* heap[id]: the object with identity id
  stats   \* how often constructors, Catalog lookups, overrides, scope.set ran

vars == <<cat, scope, stack, calls, heap, stats>>

Builders == DOMAIN cat

\* ----------------------------------------------------------------- results
NoErr == [kind |-> "none", ty |-> "", names |-> <<>>]
Err(kind, ty, names) == [kind |-> kind, ty |-> ty, names |-> names]

Pending == [st |-> "pending", id |-> 0, err |-> NoErr]
Ok(id)  == [st |-> "ok", id |-> id, err |-> NoErr]
Fail(e) == [st |-> "err", id |-> 0, err |-> e]

\* ------------------------------------------------- the generated builder
\* component_from_struct / component_from_impl: the scope type is the
\* #[scope(X)] attribute, ::dill::Transient when there is none.
\* Variant: a component without #[scope] defaults to Singleton.
ScopeTypeDefaultSingleton(c) ==
  IF c.scope_attr = "none" THEN "Singleton" ELSE c.scope_attr

ScopeType(c) == IF c.scope_attr = "none" THEN "Transient" ELSE c.scope_attr

\* Builder::instance_type_id and Builder::instance_type_name.
\* Variant: the builder advertises its own type instead of the component's.
InstanceTypeIdOfBuilder(c) == c.impl_type \o "Builder"

InstanceTypeId(c) == c.impl_type
InstanceTypeName(c) == c.impl_type

\* prepare_dependency: `match self.arg_x_fn { Some(ref fun) => fun(cat)?, _ =>
\* from_catalog }`; a reference argument has no override field at all.
\* Variant: the override field is ignored.
UseOverrideNever(arg) == FALSE

\* Variant: the is_reference test is the wrong way round.
UseOverrideOnReference(arg) == arg.shape = "ref" \/ arg.ovr # "none"

UseOverride(arg) == arg.shape # "ref" /\ arg.ovr # "none"

\* TypedBuilder::get: `if let Some(inst) = self.scope.get() { return Ok(..) }`
\* Variant: the cached instance is ignored.
CacheHitNever(cached) == FALSE

CacheHit(cached) == cached # 0

\* TypedBuilder::get on a cache hit, `inst.downcast().unwrap()`: the handle
\* itself when the cached object has the component's type, a panic otherwise.
Downcast(hp, id, T) ==
  IF hp[id].ty = T THEN Ok(id) ELSE Fail(Err("Panic", T, <<>>))

\* The `?` on an argument's Result: the error is returned as it is (From<E> for E).
\* Variant: the error is rewrapped on its way out.
PropagateErrAsBuildFailure(e) == [e EXCEPT !.kind = "BuildFailure"]

PropagateErr(e) == e

\* Arc::new(..): a fresh allocation, whose identity no live object has.
\* Variant: the handle of the latest allocation is handed out again.
ArcNewAliased(hp) == IF hp = <<>> THEN Len(hp) + 1 ELSE Len(hp)

ArcNew(hp) == Len(hp) + 1

HeapPut(hp, id, obj) ==
  [i \in 1..(IF id > Len(hp) THEN id ELSE Len(hp)) |-> IF i = id THEN obj ELSE hp[i]]

\* An object: its type, the builder that constructed it (0: made by an
\* override or by clone), the identities of its arguments, how each argument
\* was obtained, and the object it was cloned from (0: none).
Object(ty, by, args, log, copy_of) ==
  [ty |-> ty, by |-> by, args |-> args, log |-> log, copy_of |-> copy_of]

\* from_catalog after a successful cat.get::<OneOf<X>>(): a reference or an
\* Arc<X> keeps the handle, an owned X is `v.as_ref().clone()`.
FromCatalog(arg, id, hp) ==
  IF arg.shape = "owned"
    THEN LET n == ArcNew(hp)
         IN  [id |-> n, heap |-> HeapPut(hp, n, [hp[id] EXCEPT !.copy_of = id, !.by = 0])]
    ELSE [id |-> id, heap |-> hp]

\* with_x(val): the non-reference arguments configured with a fixed value,
\* as <<builder, argument>>; `val` is moved into the closure when the
\* builder is configured, before it is registered.
ValueSlots(c) ==
  {s \in UNION {{<<b, k>> : k \in DOMAIN c[b].args} : b \in DOMAIN c} :
     /\ c[s[1]].args[s[2]].shape # "ref"
     /\ c[s[1]].args[s[2]].ovr = "val"}

\* The identity of the value captured for argument k of builder b.
CapturedId(c, b, k) ==
  Cardinality({s \in ValueSlots(c) : s[1] < b \/ (s[1] = b /\ s[2] <= k)})

\* The captured values, which exist before the first get.
CapturedValues(c) ==
  [i \in 1..Cardinality(ValueSlots(c)) |->
     LET s == CHOOSE s \in ValueSlots(c) : CapturedId(c, s[1], s[2]) = i
     IN  Object(c[s[1]].args[s[2]].ty, 0, <<>>, <<>>, 0)]

\* The override function of an argument: with_x(val) is `move |_| Ok(val.clone())`,
\* with_x_fn(fun) is the user's function, which succeeds or fails.
\* Variant: with_x hands out the captured value itself.
OverrideCallNoClone(b, k, hp) ==
  LET arg == cat[b].args[k]
      n == Len(hp) + 1
  IN  IF arg.ovr = "fn_err"
        THEN [res |-> Fail(Err("BuildFailure", arg.ty, <<>>)), heap |-> hp]
      ELSE IF arg.ovr = "val"
        THEN [res |-> Ok(CapturedId(cat, b, k)), heap |-> hp]
      ELSE [res |-> Ok(n), heap |-> HeapPut(hp, n, Object(arg.ty, 0, <<>>, <<>>, 0))]

OverrideCall(b, k, hp) ==
  LET arg == cat[b].args[k]
      n == ArcNew(hp)
      v == CapturedId(cat, b, k)
  IN  IF arg.ovr = "fn_err"
        THEN [res |-> Fail(Err("BuildFailure", arg.ty, <<>>)), heap |-> hp]
      ELSE IF arg.ovr = "val"
        THEN [res |-> Ok(n), heap |-> HeapPut(hp, n, [hp[v] EXCEPT !.copy_of = v])]
      ELSE [res |-> Ok(n), heap |-> HeapPut(hp, n, Object(arg.ty, 0, <<>>, <<>>, 0))]

\* ---------------------------------------------------------------- scopes
\* Scope::get: Transient reports no instance, Singleton its cached one.
ScopeGet(kind, cell) == IF kind = "Singleton" THEN cell ELSE 0

\* Scope::set: Transient stores nothing; Singleton stores the instance and,
\* once populated, never replaces it.
\* Variant: a Singleton replaces what it holds.
ScopeSetReplace(kind, cell, inst) ==
  IF kind = "Singleton" THEN inst ELSE cell

ScopeSet(kind, cell, inst) ==
  IF kind = "Singleton" /\ cell = 0 THEN inst ELSE cell

\* --------------------------------------------------------------- Catalog
Matching(T) == {b \in Builders : InstanceTypeId(cat[b]) = T}

Names(m) ==
  LET idx == SelectSeq([i \in 1..Len(cat) |-> i], LAMBDA i : i \in m)
  IN  [k \in 1..Len(idx) |-> InstanceTypeName(cat[idx[k]])]

InProgress(st) == {InstanceTypeId(cat[st[i].b]) : i \in DOMAIN st}

\* Catalog.get<T>(): the builder to delegate to, or the error.
\* Variant: no in-progress check.
CatalogGetUnguarded(T, st) ==
  LET m == {b \in Builders : InstanceTypeId(cat[b]) = T}
  IN  IF m = {}
        THEN [b |-> 0, err |-> Err("NotFound", T, <<>>)]
      ELSE IF Cardinality(m) > 1
        THEN [b |-> 0, err |-> Err("Ambiguous", T, Names(m))]
      ELSE [b |-> CHOOSE b \in m : TRUE, err |-> NoErr]

CatalogGet(T, st) ==
  LET m == Matching(T)
  IN  IF T \in InProgress(st)
        THEN [b |-> 0, err |-> Err("CyclicDependency", T, <<>>)]
      ELSE IF m = {}
        THEN [b |-> 0, err |-> Err("NotFound", T, <<>>)]
      ELSE IF Cardinality(m) > 1
        THEN [b |-> 0, err |-> Err("Ambiguous", T, Names(m))]
      ELSE [b |-> CHOOSE b \in m : TRUE, err |-> NoErr]

\* Builder::get, `Ok(TypedBuilder::get(self, cat)?)`: the Arc<T> becomes an
\* Arc<dyn Any> of the same allocation, an error leaves through `?`.
\* Variant: the erased get hands out an allocation of its own.
BuilderGetRewrapped(res) ==
  IF res.st = "ok" THEN Ok(res.id + 1) ELSE Fail(PropagateErr(res.err))

BuilderGet(res) ==
  IF res.st = "ok" THEN Ok(res.id) ELSE Fail(PropagateErr(res.err))

\* ---------------------------------------------------------------- frames
NewFrame(b) == [b |-> b, pc |-> "check", vals |-> <<>>, log |-> <<>>, inst |-> 0]

Top(st) == st[Len(st)]
Pop(st) == SubSeq(st, 1, Len(st) - 1)
SetTop(st, f) == [st EXCEPT ![Len(st)] = f]

\* The argument the frame is resolving: build() has one `let` per argument,
\* in the order of the declaration.
\* Variant: the arguments are prepared last to first.
CurArgLastFirst(f) == cat[f.b].args[Len(cat[f.b].args) - Len(f.vals)]

CurArg(f) == cat[f.b].args[Len(f.vals) + 1]

\* A typed get() returned `res` to the frames `st` that wait for it: the
\* innermost takes an Ok as its argument and goes on, an Err leaves it
\* through `?` and reaches its caller in turn.
RECURSIVE Resume(_, _, _)
Resume(st, res, hp) ==
  IF st = <<>> THEN [stack |-> st, heap |-> hp, res |-> res]
  ELSE IF res.st = "err" THEN Resume(Pop(st), Fail(PropagateErr(res.err)), hp)
  ELSE LET f == Top(st)
           v == FromCatalog(CurArg(f), res.id, hp)
       IN  [stack |-> SetTop(st, [f EXCEPT !.vals = Append(@, v.id)]),
            heap  |-> v.heap,
            res   |-> Pending]

\* ----------------------------------------------------------------- calls
\* A call: the type asked for, the get it entered the builder by ("typed"
\* or "erased"), what the scope held when it started, what the typed get
\* returned and what the caller received.
NewCall(T, path, cached, res, e) ==
  [ty |-> T, path |-> path, cached0 |-> cached, typed |-> res, res |-> res,
   ctors |-> {}, populated |-> {}, raised |-> e]

LastCall(cs) == cs[Len(cs)]
SetLast(cs, c) == [cs EXCEPT ![Len(cs)] = c]
SetRes(cs, res) ==
  IF res.st = "pending" THEN cs
  ELSE LET c == LastCall(cs)
       IN  SetLast(cs, [c EXCEPT !.typed = res,
                                 !.res = IF c.path = "erased" THEN BuilderGet(res) ELSE res])

TotalCalls == LET RECURSIVE Sum(_)
                  Sum(n) == IF n = 0 THEN 0 ELSE Len(calls[n]) + Sum(n - 1)
              IN  Sum(NumThreads)

\* The types the callers of this catalog ask for.
RequestTypes == (CHOOSE s \in Scenarios : s.builders = cat).asks

\* The gets of T's builder that the callers of this catalog enter by.
RequestPaths(T) ==
  IF T \in (CHOOSE s \in Scenarios : s.builders = cat).erased
    THEN {"typed", "erased"} ELSE {"typed"}

Bump(s, what) == [s EXCEPT ![what] = @ + 1]

\* ------------------------------------------------------------------ Init
Init ==
  /\ cat \in Catalogs
  /\ scope = [b \in DOMAIN cat |-> 0]
  /\ stack = [t \in Threads |-> <<>>]
  /\ calls = [t \in Threads |-> <<>>]
  /\ heap = CapturedValues(cat)
  /\ stats = [ctor |-> 0, lookup |-> 0, ovr |-> 0, set |-> 0]

\* --------------------------------------------------------------- actions
\* A thread calls Catalog.get<T>(), which finds T's builder and enters it
\* by the given get.
Call(t, T, path) ==
  /\ stack[t] = <<>>
  /\ TotalCalls < MaxCalls
  /\ LET g == CatalogGet(T, <<>>)
     IN  IF g.b = 0
           THEN /\ calls' = [calls EXCEPT ![t] = Append(@, NewCall(T, path, 0, Fail(g.err), g.err))]
                /\ stack' = stack
           ELSE /\ calls' = [calls EXCEPT ![t] = Append(@,
                      NewCall(T, path, ScopeGet(ScopeType(cat[g.b]), scope[g.b]),
                              Pending, NoErr))]
                /\ stack' = [stack EXCEPT ![t] = <<NewFrame(g.b)>>]
  /\ stats' = Bump(stats, "lookup")
  /\ UNCHANGED <<cat, scope, heap>>

\* TypedBuilder::get, `self.scope.get()`: a cached instance is returned at
\* once, otherwise the frame goes on to build().
TypedGetCheck(t) ==
  /\ stack[t] # <<>>
  /\ Top(stack[t]).pc = "check"
  /\ LET f == Top(stack[t])
         cached == ScopeGet(ScopeType(cat[f.b]), scope[f.b])
     IN  IF CacheHit(cached)
           THEN LET r == Resume(Pop(stack[t]),
                                Downcast(heap, cached, cat[f.b].impl_type), heap)
                IN  /\ stack' = [stack EXCEPT ![t] = r.stack]
                    /\ heap' = r.heap
                    /\ calls' = [calls EXCEPT ![t] = SetRes(@, r.res)]
           ELSE /\ stack' = [stack EXCEPT ![t] = SetTop(@, [f EXCEPT !.pc = "args"])]
                /\ UNCHANGED <<heap, calls>>
  /\ UNCHANGED <<cat, scope, stats>>

\* build(), one `let x = ...;` of prepare_dependency: the override function
\* when one is set, the Catalog otherwise.
PrepareDependency(t) ==
  /\ stack[t] # <<>>
  /\ Top(stack[t]).pc = "args"
  /\ Len(Top(stack[t]).vals) < Len(cat[Top(stack[t]).b].args)
  /\ LET f == Top(stack[t])
         arg == CurArg(f)
     IN  IF UseOverride(arg)
           THEN LET o == OverrideCall(f.b, Len(f.vals) + 1, heap)
                    g == [f EXCEPT !.log = Append(@, "override")]
                IN  /\ stats' = Bump(stats, "ovr")
                    /\ IF o.res.st = "ok"
                         THEN /\ stack' = [stack EXCEPT ![t] =
                                    SetTop(@, [g EXCEPT !.vals = Append(@, o.res.id)])]
                              /\ heap' = o.heap
                              /\ calls' = calls
                         ELSE LET r == Resume(stack[t], o.res, heap)
                              IN  /\ stack' = [stack EXCEPT ![t] = r.stack]
                                  /\ heap' = r.heap
                                  /\ calls' = [calls EXCEPT ![t] = SetRes(
                                        SetLast(@, [LastCall(@) EXCEPT !.raised = o.res.err]),
                                        r.res)]
           ELSE LET c == CatalogGet(arg.ty, stack[t])
                    g == [f EXCEPT !.log = Append(@, "catalog")]
                IN  /\ stats' = Bump(stats, "lookup")
                    /\ heap' = heap
                    /\ IF c.b # 0
                         THEN /\ Len(stack[t]) < MaxDepth
                              /\ stack' = [stack EXCEPT ![t] =
                                    Append(SetTop(@, g), NewFrame(c.b))]
                              /\ calls' = calls
                         ELSE LET r == Resume(stack[t], Fail(c.err), heap)
                              IN  /\ stack' = [stack EXCEPT ![t] = r.stack]
                                  /\ calls' = [calls EXCEPT ![t] = SetRes(
                                        SetLast(@, [LastCall(@) EXCEPT !.raised = c.err]),
                                        r.res)]
  /\ UNCHANGED <<cat, scope>>

\* build(), `Ok(#ctor)`, and the `Arc::new` around it in TypedBuilder::get.
\* Variant: the get does not go on to scope.set and constructs again.
ConstructAgain(t) ==
  /\ stack[t] # <<>>
  /\ Top(stack[t]).pc = "args"
  /\ Len(Top(stack[t]).vals) = Len(cat[Top(stack[t]).b].args)
  /\ LET f == Top(stack[t])
         id == Len(heap) + 1
     IN  /\ heap' = HeapPut(heap, id,
                      Object(cat[f.b].impl_type, f.b, f.vals, f.log, 0))
         /\ stack' = [stack EXCEPT ![t] = SetTop(@, [f EXCEPT !.inst = id])]
         /\ calls' = [calls EXCEPT ![t] =
                        SetLast(@, [LastCall(@) EXCEPT !.ctors = @ \cup {f.b}])]
  /\ stats' = Bump(stats, "ctor")
  /\ UNCHANGED <<cat, scope>>

Construct(t) ==
  /\ stack[t] # <<>>
  /\ Top(stack[t]).pc = "args"
  /\ Len(Top(stack[t]).vals) = Len(cat[Top(stack[t]).b].args)
  /\ LET f == Top(stack[t])
         id == ArcNew(heap)
     IN  /\ heap' = HeapPut(heap, id,
                      Object(cat[f.b].impl_type, f.b, f.vals, f.log, 0))
         /\ stack' = [stack EXCEPT ![t] = SetTop(@, [f EXCEPT !.pc = "set", !.inst = id])]
         /\ calls' = [calls EXCEPT ![t] =
                        SetLast(@, [LastCall(@) EXCEPT !.ctors = @ \cup {f.b}])]
  /\ stats' = Bump(stats, "ctor")
  /\ UNCHANGED <<cat, scope>>

\* TypedBuilder::get, `self.scope.set(inst.clone()); Ok(inst)`.
ScopeSetReturn(t) ==
  /\ stack[t] # <<>>
  /\ Top(stack[t]).pc = "set"
  /\ LET f == Top(stack[t])
         cell == ScopeSet(ScopeType(cat[f.b]), scope[f.b], f.inst)
         r == Resume(Pop(stack[t]), Ok(f.inst), heap)
     IN  /\ scope' = [scope EXCEPT ![f.b] = cell]
         /\ stack' = [stack EXCEPT ![t] = r.stack]
         /\ heap' = r.heap
         /\ calls' = [calls EXCEPT ![t] = SetRes(
                IF cell # scope[f.b]
                  THEN SetLast(@, [LastCall(@) EXCEPT !.populated = @ \cup {f.b}])
                  ELSE @,
                r.res)]
  /\ stats' = Bump(stats, "set")
  /\ UNCHANGED cat

Next ==
  \E t \in Threads :
    \/ \E T \in RequestTypes : \E path \in RequestPaths(T) : Call(t, T, path)
    \/ TypedGetCheck(t)
    \/ PrepareDependency(t)
    \/ Construct(t)
    \/ ScopeSetReturn(t)

Spec == Init /\ [][Next]_vars

\* ================================================================ claims
\* The builders registered with implementation type T.
Registered(T) == {b \in Builders : cat[b].impl_type = T}

\* The top-level calls made so far, as <<thread, index>>.
CallIds == {ci \in Threads \X (1..MaxCalls) : ci[2] <= Len(calls[ci[1]])}
CallOf(ci) == calls[ci[1]][ci[2]]

\* The builder a call is delegated to (0: none or several registered).
Target(c) == IF Cardinality(Registered(c.ty)) = 1
               THEN CHOOSE b \in Registered(c.ty) : TRUE ELSE 0

IsSingleton(b) == cat[b].scope_attr = "Singleton"
IsTransient(b) == cat[b].scope_attr \in {"Transient", "none"}

Quiet == \A t \in Threads : stack[t] = <<>>

\* ---------------------------------------------------------------------
\* C1: all callers of get<T>() for a Singleton-scoped T receive one and the
\* same instance, whatever the interleaving of their scope.get / build /
\* scope.set steps, and the scope is populated by one call only.
C1_AllCallersOneInstance ==
  /\ \A ci, cj \in CallIds :
       LET c == CallOf(ci)
           d == CallOf(cj)
       IN  (c.ty = d.ty /\ Target(c) # 0 /\ IsSingleton(Target(c))
              /\ c.res.st = "ok" /\ d.res.st = "ok")
           => c.res.id = d.res.id
  /\ \A b \in Builders :
       Cardinality({ci \in CallIds : b \in CallOf(ci).populated}) <= 1

C3_SuccessiveSame ==
  /\ \A t \in Threads : \A i, j \in DOMAIN calls[t] :
       LET c == calls[t][i]
           d == calls[t][j]
       IN  (i < j /\ c.ty = d.ty /\ Target(c) # 0 /\ IsSingleton(Target(c))
              /\ c.res.st = "ok" /\ d.res.st = "ok")
           => c.res.id = d.res.id
  /\ \A ci \in CallIds :
       LET c == CallOf(ci)
       IN  c.cached0 # 0
           => /\ Target(c) \notin c.ctors
              /\ c.res.st # "pending" => c.res = Ok(c.cached0)

\* ---------------------------------------------------------------------
\* Where a handle obtained from the Catalog ends up: in the result of a
\* call, or in an Arc or reference argument of a constructed object.
Sites ==
  {<<"call", ci[1], ci[2]>> : ci \in CallIds}
    \cup UNION {{<<"arg", id, k>> : k \in DOMAIN heap[id].args} : id \in DOMAIN heap}

\* The handle at a site, as <<builder that made it, identity>>.
SiteHandle(s) ==
  IF s[1] = "call"
    THEN LET c == calls[s[2]][s[3]]
         IN  IF c.res.st = "ok" /\ Target(c) # 0 THEN <<Target(c), c.res.id>> ELSE <<0, 0>>
    ELSE LET o == heap[s[2]]
         IN  IF /\ o.by # 0
                /\ o.log[s[3]] = "catalog"
                /\ cat[o.by].args[s[3]].shape # "owned"
               THEN <<heap[o.args[s[3]]].by, o.args[s[3]]>> ELSE <<0, 0>>

\* C4: a Transient scope never holds an instance, every successful get<T>()
\* of a Transient T ran T's constructor, and no two handles handed out for
\* a Transient T (to callers or to Arc/reference arguments) are the same.
C4_TransientFresh ==
  /\ \A b \in Builders : IsTransient(b) => scope[b] = 0
  /\ \A ci \in CallIds :
       LET c == CallOf(ci)
       IN  (c.res.st = "ok" /\ Target(c) # 0 /\ IsTransient(Target(c)))
           => Target(c) \in c.ctors
  /\ LET held == {<<s, SiteHandle(s)>> : s \in Sites}
         transient == {h \in held : h[2][1] # 0 /\ IsTransient(h[2][1])}
     IN  \A h1, h2 \in transient : h1[1] # h2[1] => h1[2] # h2[2]

\* Two threads have completed a get for one Transient type, and an instance
\* of that type was handed to an argument as well.
C4_Witness ==
  \E b \in Builders :
    /\ IsTransient(b)
    /\ \E s1, s2 \in Sites :
         /\ s1[1] = "call" /\ s2[1] = "call" /\ s1[2] # s2[2]
         /\ SiteHandle(s1)[1] = b /\ SiteHandle(s2)[1] = b
    /\ \E s \in Sites : s[1] = "arg" /\ SiteHandle(s)[1] = b

\* ---------------------------------------------------------------------
\* Thread t takes a step from a frame that is about to ask a populated scope.
HitStep(t) ==
  /\ stack[t] # <<>>
  /\ Top(stack[t]).pc = "check"
  /\ scope[Top(stack[t]).b] # 0
  /\ stack'[t] # stack[t]

\* C5: a typed get that finds its scope populated returns the cached
\* instance in that one step: the frame is gone, its caller has the cached
\* instance, and no constructor, override, Catalog lookup or scope.set ran;
\* every scope is as before.
C5_CacheHitPure ==
  [][\A t \in Threads :
       HitStep(t) =>
         LET n == Len(stack[t])
             cached == scope[Top(stack[t]).b]
         IN  /\ scope' = scope
             /\ stats' = stats
             /\ Len(stack'[t]) = n - 1
             /\ n = 1 => LastCall(calls'[t]).res = Ok(cached)
             /\ n > 1 =>
                  LET p == stack[t][n - 1]
                      q == stack'[t][n - 1]
                      v == q.vals[Len(q.vals)]
                  IN  /\ Len(q.vals) = Len(p.vals) + 1
                      /\ q.pc = p.pc /\ q.b = p.b
                      /\ IF CurArg(p).shape = "owned"
                           THEN heap'[v].copy_of = cached /\ v \notin DOMAIN heap
                           ELSE v = cached /\ heap' = heap]_vars

\* A top-level cache hit and a nested one have both happened.
C5_Witness ==
  /\ \E ci \in CallIds :
       LET c == CallOf(ci)
       IN  c.cached0 # 0 /\ c.res = Ok(c.cached0) /\ c.ctors = {} /\ c.populated = {}
  /\ \E s1, s2 \in Sites :
       /\ s1[1] = "arg" /\ s2[1] = "arg" /\ s1[2] # s2[2]
       /\ SiteHandle(s1)[1] # 0 /\ SiteHandle(s1) = SiteHandle(s2)

\* ---------------------------------------------------------------------
\* The call reached T's builder and ended with an error.
FailedInArgs(c) == c.res.st = "err" /\ Target(c) # 0

\* C6: a get<T>() of a registered T that fails while its arguments are
\* resolved returns the very error the failing argument produced, has not
\* run T's constructor, returns no instance and has not populated T's scope.
C6_ArgFailurePropagates ==
  \A ci \in CallIds :
    LET c == CallOf(ci)
    IN  FailedInArgs(c)
        => /\ c.raised # NoErr
           /\ c.res.err = c.raised
           /\ c.res.id = 0
           /\ Target(c) \notin c.ctors
           /\ Target(c) \notin c.populated
           /\ stack[ci[1]] = <<>> \/ ci[2] < Len(calls[ci[1]])

\* A thread's get<T>() failed on a Catalog lookup, and its next get<T>()
\* tried again and failed the same way; another call failed on an override.
C6_Witness ==
  \E t \in Threads :
    /\ Len(calls[t]) >= 2
    /\ FailedInArgs(calls[t][1]) /\ FailedInArgs(calls[t][2])
    /\ calls[t][1].ty = calls[t][2].ty
    /\ calls[t][2].raised.kind = "NotFound"
    /\ scope[Target(calls[t][1])] = 0

\* ---------------------------------------------------------------------
\* C7, as claimed: a get<T>() that fails during argument resolution has
\* changed the scope of no builder of the Catalog.
C7_FailedGetChangesNoScope ==
  \A ci \in CallIds : FailedInArgs(CallOf(ci)) => CallOf(ci).populated = {}

\* C7, amended: a get<T>() that fails during argument resolution has not
\* changed T's own scope; the scopes it has changed are those of
\* dependencies declared #[scope(Singleton)] that it constructed before the
\* failing argument, and these stay populated.
C7_FailedGetKeepsOwnScope ==
  \A ci \in CallIds :
    LET c == CallOf(ci)
    IN  FailedInArgs(c)
        => /\ Target(c) \notin c.populated
           /\ c.populated \subseteq c.ctors
           /\ \A b \in c.populated : IsSingleton(b) /\ scope[b] # 0

\* A failed get<T>() that populated a dependency's scope and, before the
\* failure, also resolved a dependency without a scope attribute.
C7_Witness ==
  \E ci \in CallIds :
    LET c == CallOf(ci)
    IN  /\ FailedInArgs(c)
        /\ c.populated # {}
        /\ \E b \in c.ctors : cat[b].scope_attr = "none"

\* ---------------------------------------------------------------------
\* Where the claim says an argument comes from.
SourceOf(arg) ==
  IF arg.shape # "ref" /\ arg.ovr # "none" THEN "override" ELSE "catalog"

SourcesRight(b, log) ==
  /\ Len(log) <= Len(cat[b].args)
  /\ \A k \in DOMAIN log : log[k] = SourceOf(cat[b].args[k])

\* C8: every non-reference argument with an override is obtained from the
\* override alone, without a Catalog lookup, and every argument without one
\* by exactly one Catalog lookup: each construction has one source per
\* argument, in the arguments' order, and it is the right one.
C8_OverridePrecedence ==
  /\ stats.ovr > 0 =>
       \E b \in Builders : \E k \in DOMAIN cat[b].args :
         SourceOf(cat[b].args[k]) = "override"
  /\ \A id \in DOMAIN heap :
       heap[id].by # 0
       => /\ Len(heap[id].log) = Len(cat[heap[id].by].args)
          /\ SourcesRight(heap[id].by, heap[id].log)
  /\ \A t \in Threads : \A i \in DOMAIN stack[t] :
       LET f == stack[t][i]
       IN  /\ SourcesRight(f.b, f.log)
           /\ Len(f.log) \in {Len(f.vals), Len(f.vals) + 1}
           /\ Len(f.log) = Len(f.vals) + 1 => i < Len(stack[t])

\* A component was constructed with one argument from an override (in one
\* run for a type nobody registered, in another for a registered type) and
\* one argument from the Catalog.
C8_Witness ==
  \E id \in DOMAIN heap : \E k, l \in DOMAIN heap[id].args :
    /\ heap[id].by # 0
    /\ heap[id].log[k] = "override"
    /\ heap[id].log[l] = "catalog"

\* ---------------------------------------------------------------------
\* The names of all builders registered for T.
AllNames(T) == [k \in 1..Cardinality(Registered(T)) |-> T]

LookupErrorRight(e) ==
  /\ e.kind = "NotFound" => Registered(e.ty) = {} /\ e.names = <<>>
  /\ e.kind = "Ambiguous" =>
       Cardinality(Registered(e.ty)) > 1 /\ e.names = AllNames(e.ty)

\* C9: Catalog.get<T>() is decided by the number of builders registered for
\* T: none is NotFound, several is Ambiguous with the name of every
\* candidate, and in both cases nothing was constructed and no scope
\* changed; exactly one hands out what that builder's typed get returns.
C9_LookupByMatchCount ==
  \A ci \in CallIds :
    LET c == CallOf(ci)
        n == Cardinality(Registered(c.ty))
    IN  /\ n = 0 => c.res = Fail(Err("NotFound", c.ty, <<>>))
        /\ n > 1 => c.res = Fail(Err("Ambiguous", c.ty, AllNames(c.ty)))
        /\ n # 1 => c.ctors = {} /\ c.populated = {}
        /\ n = 1 =>
             /\ c.res.st = "ok" =>
                  heap[c.res.id].by = Target(c) /\ heap[c.res.id].ty = c.ty
             /\ c.res.st = "err" => c.res.err = c.raised
        /\ LookupErrorRight(c.raised)

\* One run has seen NotFound, Ambiguous and a successful get.
C9_Witness ==
  /\ \E ci \in CallIds : CallOf(ci).res.err.kind = "Ambiguous"
                           /\ Len(CallOf(ci).res.err.names) = 2
                           /\ Target(CallOf(ci)) = 0
  /\ \E ci \in CallIds : CallOf(ci).res.err.kind = "NotFound" /\ Target(CallOf(ci)) = 0
  /\ \E ci \in CallIds : CallOf(ci).res.st = "ok"

\* ---------------------------------------------------------------------
\* No type is in progress twice.
NoReentry(st) ==
  \A i, j \in DOMAIN st : i # j => cat[st[i].b].impl_type # cat[st[j].b].impl_type

\* Thread t resolves, from the Catalog, an argument whose type is in progress.
ReentryStep(t) ==
  /\ stack[t] # <<>>
  /\ Top(stack[t]).pc = "args"
  /\ Len(Top(stack[t]).vals) < Len(cat[Top(stack[t]).b].args)
  /\ SourceOf(CurArg(Top(stack[t]))) = "catalog"
  /\ \E i \in DOMAIN stack[t] :
       cat[stack[t][i].b].impl_type = CurArg(Top(stack[t])).ty
  /\ <<stack[t], calls[t]>>' # <<stack[t], calls[t]>>

MadeBy(b) == {id \in DOMAIN heap : heap[id].by = b}

\* The instances handed to argument k of the objects builder b constructed.
HeldIn(b, k) == {heap[id].args[k] : id \in MadeBy(b)}

\* C11: a Singleton-scoped component is constructed once and its
\* dependencies are resolved only during that one construction: whatever
\* the number of get calls, one object of the component exists, each of its
\* arguments was obtained once (one Logger was built through Service), and
\* the successive calls of a thread return the same instance.
C11_DependenciesResolvedOnce ==
  \A b \in Builders :
    (IsSingleton(b) /\ cat[b].args # <<>>)
    => /\ Cardinality(MadeBy(b)) <= 1
       /\ \A k \in DOMAIN cat[b].args : Cardinality(HeldIn(b, k)) <= 1
       /\ \A t \in Threads : \A i, j \in DOMAIN calls[t] :
            (Target(calls[t][i]) = b /\ Target(calls[t][j]) = b
               /\ calls[t][i].res.st = "ok" /\ calls[t][j].res.st = "ok")
            => calls[t][i].res.id = calls[t][j].res.id

\* ---------------------------------------------------------------------
\* Thread t is in build() and its next argument has an override.
AtOverride(t) ==
  /\ stack[t] # <<>>
  /\ Top(stack[t]).pc = "args"
  /\ Len(Top(stack[t]).vals) < Len(cat[Top(stack[t]).b].args)
  /\ SourceOf(CurArg(Top(stack[t]))) = "override"

\* Thread t's step has obtained that argument from its override: the frame
\* has one more value, a fresh object; for with_x it is a copy of the value
\* captured for this argument and equal to it.
OverrideGave(t) ==
  LET f == Top(stack[t])
      k == Len(f.vals) + 1
      g == Top(stack'[t])
      v == g.vals[k]
      cap == CapturedId(cat, f.b, k)
  IN  /\ Len(stack'[t]) = Len(stack[t])
      /\ g.b = f.b /\ Len(g.vals) = k
      /\ v \notin DOMAIN heap /\ v \in DOMAIN heap'
      /\ cat[f.b].args[k].ovr # "fn_err"
      /\ cat[f.b].args[k].ovr = "val" =>
           /\ heap'[v].copy_of = cap
           /\ [heap'[v] EXCEPT !.copy_of = 0] = heap[cap]

\* Thread t's step has run the override function and it failed.
OverrideFailed(t) ==
  /\ stack'[t] = <<>>
  /\ CurArg(Top(stack[t])).ovr = "fn_err"
  /\ LastCall(calls'[t]).raised.kind = "BuildFailure"

\* C12: a value given to with_x is captured when the builder is configured
\* and never changes, and each construction receives a fresh copy equal to
\* it; an override function runs once for each construction of its
\* component, when build() reaches its argument, and at no other step, so
\* never on a cache hit.
C12_OverrideOncePerConstruction ==
  [][/\ \A i \in 1..Cardinality(ValueSlots(cat)) :
          heap'[i] = heap[i] /\ heap[i].copy_of = 0
     /\ \A t \in Threads :
          (AtOverride(t) /\ stack'[t] # stack[t])
          => /\ stats'.ovr = stats.ovr + 1
             /\ OverrideGave(t) \/ OverrideFailed(t)
     /\ stats'.ovr # stats.ovr =>
          \E t \in Threads : AtOverride(t) /\ stack'[t] # stack[t]]_vars

\* A component with a fixed-value and a function override was constructed
\* twice, each time with its own copy of the captured value and its own
\* result of the function, and a later get was served from the cache.
C12_Witness ==
  /\ \E i, j \in DOMAIN heap : \E k, l \in DOMAIN heap[i].args :
       /\ i # j /\ heap[i].by # 0 /\ heap[i].by = heap[j].by
       /\ cat[heap[i].by].args[k].ovr = "val"
       /\ cat[heap[i].by].args[l].ovr = "fn_ok"
       /\ heap[i].args[k] # heap[j].args[k]
       /\ heap[heap[i].args[k]].copy_of = heap[heap[j].args[k]].copy_of
       /\ heap[heap[i].args[k]].copy_of = CapturedId(cat, heap[i].by, k)
       /\ heap[i].args[l] # heap[j].args[l]
       /\ stats.ovr = 4
  /\ \E ci \in CallIds : CallOf(ci).cached0 # 0 /\ CallOf(ci).res.st = "ok"

\* ---------------------------------------------------------------------
\* Argument k of builder b, resolved with log entry src to the value v, is
\* the handle of an instance a builder of the argument's type constructed.
FromLookup(b, k, src, v) ==
  /\ src = "catalog"
  /\ heap[v].by \in Registered(cat[b].args[k].ty)
  /\ heap[v].copy_of = 0

\* C13: a borrowed-reference argument is never overridden: in every
\* construction, finished or in progress, it was obtained by a Catalog
\* lookup of the referenced type and is the instance that lookup returned,
\* whatever overrides the other arguments have.
C13_ReferenceFromCatalog ==
  /\ \A s \in ValueSlots(cat) : cat[s[1]].args[s[2]].shape # "ref"
  /\ \A id \in DOMAIN heap : \A k \in DOMAIN heap[id].args :
       (heap[id].by # 0 /\ cat[heap[id].by].args[k].shape = "ref")
       => FromLookup(heap[id].by, k, heap[id].log[k], heap[id].args[k])
  /\ \A t \in Threads : \A i \in DOMAIN stack[t] : \A k \in DOMAIN stack[t][i].log :
       cat[stack[t][i].b].args[k].shape = "ref"
       => /\ stack[t][i].log[k] = "catalog"
          /\ k \in DOMAIN stack[t][i].vals =>
               FromLookup(stack[t][i].b, k, "catalog", stack[t][i].vals[k])

\* A component was constructed with a reference argument from the Catalog
\* next to an argument of the same type that came from its override.
C13_Witness ==
  \E id \in DOMAIN heap : \E k, l \in DOMAIN heap[id].args :
    /\ heap[id].by # 0
    /\ cat[heap[id].by].args[k].shape = "ref"
    /\ cat[heap[id].by].args[l].ty = cat[heap[id].by].args[k].ty
    /\ heap[id].log[l] = "override"
    /\ heap[id].log[k] = "catalog"
    /\ heap[heap[id].args[k]].by \in Registered(cat[heap[id].by].args[k].ty)

\* ---------------------------------------------------------------------
\* The arguments that came from the Catalog, as <<holder, argument>>: those
\* of the constructed components (holder <<"obj", id>>) and those a build()
\* in progress has resolved (holder <<"frame", thread, index>>).
CatalogArgs ==
  {s \in UNION {{<<<<"obj", id>>, k>> : k \in DOMAIN heap[id].args} : id \in DOMAIN heap} :
     heap[s[1][2]].by # 0 /\ heap[s[1][2]].log[s[2]] = "catalog"}
  \cup
  {s \in UNION {UNION {{<<<<"frame", t, i>>, k>> : k \in DOMAIN stack[t][i].vals}
                        : i \in DOMAIN stack[t]} : t \in Threads} :
     stack[s[1][2]][s[1][3]].pc = "args"
       /\ stack[s[1][2]][s[1][3]].log[s[2]] = "catalog"}

\* The builder whose argument it is, and the value held.
ArgOwner(s) ==
  IF s[1][1] = "obj" THEN heap[s[1][2]].by ELSE stack[s[1][2]][s[1][3]].b

ArgValue(s) ==
  IF s[1][1] = "obj" THEN heap[s[1][2]].args[s[2]]
  ELSE stack[s[1][2]][s[1][3]].vals[s[2]]

\* C14: of the arguments a component got from the Catalog, an Arc<X> is the
\* handle Catalog.get<X>() returned, which is X's cached instance when X is
\* a Singleton, and an owned X is a copy of the returned instance with an
\* identity of its own: it is not the returned instance, not X's cached
\* instance and not held anywhere else.
C14_ShapeDecidesSharing ==
  \A s \in CatalogArgs :
    LET arg == cat[ArgOwner(s)].args[s[2]]
        v == ArgValue(s)
        u == IF arg.shape = "owned" THEN heap[v].copy_of ELSE v
    IN  /\ u # 0
        /\ heap[u].by \in Registered(arg.ty)
        /\ (arg.shape = "arc" /\ IsSingleton(heap[u].by)) => scope[heap[u].by] = v
        /\ arg.shape = "owned" =>
             /\ v # u /\ heap[v].by = 0
             /\ [heap[v] EXCEPT !.copy_of = 0, !.by = heap[u].by] = heap[u]
             /\ \A b \in Builders : scope[b] # v
             /\ \A r \in CatalogArgs : (r # s /\ r[1][1] = s[1][1]) => ArgValue(r) # v
             /\ \A ci \in CallIds : CallOf(ci).res.id # v

\* ---------------------------------------------------------------------
\* C15: the type-erased get is the typed get: a call that entered its
\* builder by Builder::get has received exactly what TypedBuilder::get
\* returned, the same instance or the same error, and both gets use the one
\* scope: whichever get a call entered by, when the scope was populated at
\* its start it receives the cached instance and constructs nothing, and
\* only a call that constructed the component can have populated the scope.
C15_ErasedGetIsTypedGet ==
  \A ci \in CallIds :
    LET c == CallOf(ci)
    IN  /\ c.res.st = "pending" => c.typed.st = "pending"
        /\ c.res.st # "pending" => c.res = c.typed
        /\ c.cached0 # 0 =>
             /\ Target(c) \notin c.ctors
             /\ c.res.st # "pending" => c.res = Ok(c.cached0)
        /\ (Target(c) # 0 /\ Target(c) \in c.populated) =>
             /\ Target(c) \in c.ctors
             /\ c.res.st # "pending" => c.res = Ok(scope[Target(c)])

\* A call through the type-erased get populated the scope and a call
\* through the typed get was then served that instance from the cache, and
\* a call through the type-erased get was served from the cache as well.
C15_Witness ==
  \E c1, c2, c3 \in CallIds :
    /\ CallOf(c1).path = "erased" /\ Target(CallOf(c1)) \in CallOf(c1).populated
    /\ CallOf(c1).res.st = "ok"
    /\ CallOf(c2).path = "typed" /\ CallOf(c2).cached0 = CallOf(c1).res.id
    /\ CallOf(c2).res = CallOf(c1).res
    /\ c3 # c1 /\ CallOf(c3).path = "erased" /\ CallOf(c3).res = CallOf(c1).res
    /\ CallOf(c3).ctors = {}

\* ---------------------------------------------------------------------
\* The dependency graph: the builders that b's build() asks the Catalog for.
DependsOn(b) ==
  {d \in Builders : \E k \in DOMAIN cat[b].args :
     /\ SourceOf(cat[b].args[k]) = "catalog"
     /\ Registered(cat[b].args[k].ty) = {d}}

SetMax(S) == IF S = {} THEN 0 ELSE CHOOSE x \in S : \A y \in S : y <= x

\* The builders on the longest dependency path from b, followed for at
\* most n builders.
RECURSIVE DepthFrom(_, _)
DepthFrom(b, n) ==
  IF n = 0 THEN 0 ELSE 1 + SetMax({DepthFrom(d, n - 1) : d \in DependsOn(b)})

GraphDepth(b) == DepthFrom(b, Len(cat) + 1)

Acyclic == \A b \in Builders : GraphDepth(b) <= Len(cat)

\* The steps a typed get of b takes at most once scope.get() found nothing:
\* for each argument its lookup or override and, where the Catalog has a
\* builder for it, that builder's scope.get() and all of its steps; then
\* the constructor and scope.set.
RECURSIVE BuildSteps(_, _, _)
BuildSteps(b, from, n) ==
  IF n = 0 THEN 0
  ELSE LET RECURSIVE Sum(_)
           Sum(k) ==
             IF k > Len(cat[b].args) THEN 0
             ELSE LET arg == cat[b].args[k]
                  IN  1 + Sum(k + 1)
                        + (IF SourceOf(arg) = "catalog"
                                /\ Cardinality(Registered(arg.ty)) = 1
                             THEN 1 + BuildSteps(CHOOSE d \in Registered(arg.ty) : TRUE,
                                                 1, n - 1)
                             ELSE 0)
       IN  Sum(from) + 2

\* The steps the frames of a resolution have left at most.
FrameSteps(f) ==
  IF f.pc = "check" THEN 1 + BuildSteps(f.b, 1, Len(cat))
  ELSE IF f.pc = "args" THEN BuildSteps(f.b, Len(f.log) + 1, Len(cat))
  ELSE 1

RECURSIVE StepsLeft(_)
StepsLeft(st) == IF st = <<>> THEN 0 ELSE FrameSteps(Top(st)) + StepsLeft(Pop(st))

\* Thread t can take a step of its resolution.
CanStep(t) ==
  ENABLED (TypedGetCheck(t) \/ PrepareDependency(t) \/ Construct(t) \/ ScopeSetReturn(t))

\* C16: in an acyclic catalog every get<T>() terminates: a call in progress
\* can always take a step, a call that is over has returned an instance or
\* an error, the resolution nests no deeper than the dependency graph of
\* the requested component, every step leaves strictly fewer steps to take,
\* and a typed get runs its constructor at most once.
C16_GetTerminates ==
  /\ [](Acyclic =>
          \A t \in Threads :
            /\ stack[t] # <<>> =>
                 /\ CanStep(t)
                 /\ Len(stack[t]) <= GraphDepth(stack[t][1].b)
                 /\ LastCall(calls[t]).res.st = "pending"
            /\ (stack[t] = <<>> /\ calls[t] # <<>>) =>
                 LastCall(calls[t]).res.st \in {"ok", "err"})
  /\ [][Acyclic =>
          \A t \in Threads :
            (stack[t] # <<>> /\ stack'[t] # stack[t])
            => /\ StepsLeft(stack'[t]) < StepsLeft(stack[t])
               /\ stats'.ctor # stats.ctor =>
                    /\ Top(stack[t]).inst = 0
                    /\ stats'.ctor = stats.ctor + 1
                    /\ Top(stack'[t]).pc = "set"]_vars

\* A get that resolved a dependency two frames deep has returned, and a get
\* of the same thread was served from the cache.
C16_Witness ==
  /\ Acyclic
  /\ \E t \in Threads : \E i, j \in DOMAIN calls[t] :
       /\ stack[t] = <<>>
       /\ calls[t][i].res.st = "ok" /\ Cardinality(calls[t][i].ctors) >= 2
       /\ GraphDepth(Target(calls[t][i])) = 2
       /\ calls[t][j].res.st = "ok" /\ calls[t][j].cached0 # 0

\* ---------------------------------------------------------------------
\* A typed get of builder b that found the scope Empty has not returned yet.
Observing(b) ==
  \E t \in Threads : \E i \in DOMAIN stack[t] :
    stack[t][i].b = b /\ stack[t][i].pc \in {"args", "set"}

\* C17: once every get of a Singleton that had found its scope Empty has
\* returned, and one of them has built an instance, the scope holds one of
\* the instances built, and every get<T>() that started with the scope
\* populated has returned that instance and has constructed nothing.
C17_OneInstanceAfterRace ==
  \A b \in Builders :
    (IsSingleton(b) /\ ~Observing(b) /\ MadeBy(b) # {})
    => /\ scope[b] \in MadeBy(b)
       /\ \A ci \in CallIds :
            LET c == CallOf(ci)
            IN  (Target(c) = b /\ c.cached0 # 0)
                => /\ c.ctors = {}
                   /\ c.res.st # "pending" => c.res = Ok(scope[b])

\* Two gets raced on an Empty scope and each built an instance; both have
\* returned, and a get that started afterwards returned the cached one.
C17_Witness ==
  \E b \in Builders : \E c1, c2, c3 \in CallIds :
    /\ IsSingleton(b) /\ ~Observing(b) /\ Cardinality(MadeBy(b)) = 2
    /\ c1 # c2 /\ Target(CallOf(c1)) = b /\ Target(CallOf(c2)) = b
    /\ CallOf(c1).res.st = "ok" /\ CallOf(c2).res.st = "ok"
    /\ CallOf(c1).res.id # CallOf(c2).res.id
    /\ Target(CallOf(c3)) = b /\ CallOf(c3).cached0 # 0
    /\ CallOf(c3).res = Ok(scope[b])

\* ---------------------------------------------------------------------
\* C18: the instance a builder's scope holds was constructed by that very
\* builder and has the builder's instance type, so the downcast of a cache
\* hit succeeds: no call has ended in a panic.
C18_ScopeHoldsOwnInstance ==
  /\ \A b \in Builders :
       scope[b] # 0
       => /\ scope[b] \in DOMAIN heap
          /\ heap[scope[b]].by = b
          /\ heap[scope[b]].ty = InstanceTypeId(cat[b])
          /\ Downcast(heap, scope[b], cat[b].impl_type) = Ok(scope[b])
  /\ \A ci \in CallIds : CallOf(ci).res.err.kind # "Panic"

\* Two builders have populated their scopes, each with its own instance,
\* and a get was served from one of them.
C18_Witness ==
  /\ \E b, d \in Builders : b # d /\ scope[b] # 0 /\ scope[d] # 0
                              /\ cat[b].impl_type # cat[d].impl_type
  /\ \E ci \in CallIds :
       /\ CallOf(ci).cached0 # 0
       /\ CallOf(ci).res = Ok(scope[Target(CallOf(ci))])

\* ---------------------------------------------------------------------
\* Thread t's build() prepares its next argument.
ArgStep(t) ==
  /\ stack[t] # <<>>
  /\ Top(stack[t]).pc = "args"
  /\ Len(Top(stack[t]).vals) < Len(cat[Top(stack[t]).b].args)
  /\ stack'[t] # stack[t]

\* The error with which preparing the argument fails, NoErr when it goes on.
ArgError(arg, st) ==
  IF SourceOf(arg) = "override"
    THEN IF arg.ovr = "fn_err" THEN Err("BuildFailure", arg.ty, <<>>) ELSE NoErr
    ELSE CatalogGet(arg.ty, st).err

\* The values of the arguments are those of the declared types, in order.
InDeclaredOrder(b, vals) ==
  /\ Len(vals) <= Len(cat[b].args)
  /\ \A k \in DOMAIN vals : heap[vals[k]].ty = cat[b].args[k].ty

\* C19: build() prepares the arguments in the order of their declaration:
\* the step it takes is always for the first argument not yet resolved and
\* is one lookup or one override call; when that fails the call is over
\* with that argument's error, no further lookup or override follows and
\* nothing is constructed; every constructor receives its arguments in
\* the declared order.
C19_ArgumentsInOrder ==
  /\ [](/\ \A id \in DOMAIN heap :
             heap[id].by # 0 =>
               /\ Len(heap[id].args) = Len(cat[heap[id].by].args)
               /\ InDeclaredOrder(heap[id].by, heap[id].args)
        /\ \A t \in Threads : \A i \in DOMAIN stack[t] :
             InDeclaredOrder(stack[t][i].b, stack[t][i].vals))
  /\ [][\A t \in Threads :
          ArgStep(t) =>
            LET f == Top(stack[t])
                k == Len(f.vals) + 1
                arg == cat[f.b].args[k]
                e == ArgError(arg, stack[t])
                n == Len(stack[t])
            IN  /\ Len(f.log) = k - 1
                /\ IF SourceOf(arg) = "override"
                     THEN stats' = Bump(stats, "ovr")
                     ELSE stats' = Bump(stats, "lookup")
                /\ e # NoErr =>
                     /\ stack'[t] = <<>>
                     /\ LastCall(calls'[t]).res = Fail(e)
                     /\ LastCall(calls'[t]).ctors = LastCall(calls[t]).ctors
                     /\ heap' = heap /\ scope' = scope
                /\ e = NoErr =>
                     /\ Len(stack'[t]) >= n
                     /\ stack'[t][n].log = Append(f.log, SourceOf(arg))
                     /\ Len(stack'[t][n].vals) \in {k - 1, k}]_vars

\* A get failed on the override of its second argument, after its first
\* argument was resolved; its third argument, which nobody registered, was
\* never looked up.
C19_Witness ==
  \E ci \in CallIds : \E k, l \in 1..3 :
    LET c == CallOf(ci)
    IN  /\ FailedInArgs(c)
        /\ stack[ci[1]] = <<>>
        /\ k < l /\ l \in DOMAIN cat[Target(c)].args
        /\ c.res.err = Err("BuildFailure", cat[Target(c)].args[k].ty, <<>>)
        /\ Registered(cat[Target(c)].args[l].ty) = {}
        /\ SourceOf(cat[Target(c)].args[l]) = "catalog"
        /\ c.ctors # {}
        /\ stats.lookup = 2 /\ stats.ovr = 1

=============================================================================
